---- MODULE Spec2Model ----
(***************************************************************************)
(* A model of encoded2json: the percent / charset / \xNN decoding pipeline *)
(* of decoder.rs, the \xNN decoder and the form folding of parser.rs, and  *)
(* the entry point of main.rs.                                             *)
(*                                                                         *)
(* Text is a sequence of Unicode scalar values (code points), a byte       *)
(* string a sequence of numbers in 0..255.                                 *)
(***************************************************************************)
EXTENDS Integers, Sequences, FiniteSets, TLC

VARIABLES
    mode,       \* which entry point this run exercises
    pc,         \* position of the run inside that entry point
    input,      \* the argument: text for the \xNN decoders, bytes otherwise
    encoding,   \* main.rs: the selected encoding_rs encoding
    chars,      \* decode_escape_sequences: what the iterator has left
    result,     \* decode_escape_sequences: the output String so far
    byte_seq,   \* decode_escape_sequences: the pending bytes
    decoded,    \* the text handed to the structural parser
    pairs,      \* FormURLEncodedParser::parse: pairs the for loop has left
    map,        \* FormURLEncodedParser::parse: the Map being filled
    out         \* what the entry point returned

vars == <<mode, pc, input, encoding, chars, result, byte_seq, decoded, pairs, map, out>>

---------------------------------------------------------------------------
(* Bounds of the model.                                                    *)

MaxTokens == 4
MaxPieces == 3
MaxArgs == 3

---------------------------------------------------------------------------
(* Characters the code names.                                              *)

Backslash == 92
LowerX == 120
Plus == 43
Minus == 45
Percent == 37
Ampersand == 38
Equals == 61
Space == 32
OpenBracket == 91
CloseBracket == 93
Replacement == 65533

---------------------------------------------------------------------------
(* Sequences.                                                              *)

Drop(s, n) == SubSeq(s, n + 1, Len(s))

RECURSIVE Flatten(_)
Flatten(ss) == IF ss = <<>> THEN <<>> ELSE Head(ss) \o Flatten(Tail(ss))

BoundedSeqs(S, n) == UNION {[1..k -> S] : k \in 0..n}

---------------------------------------------------------------------------
(* serde_json::Value.  A Map is a function from keys (texts) to values; a  *)
(* Number is kept as its digits.                                           *)

JNull == [t |-> "Null", v |-> <<>>]
JNumber(digits) == [t |-> "Number", v |-> digits]
JString(text) == [t |-> "String", v |-> text]
JArray(items) == [t |-> "Array", v |-> items]
JObject(m) == [t |-> "Object", v |-> m]

(* What an entry point holds before it has returned anything.              *)
NoValue == [t |-> "None", v |-> <<>>]

(* Map::new *)
EmptyMap == [k \in {} |-> JNull]

(* Map::insert *)
Insert(m, key, value) ==
    [k \in (DOMAIN m) \cup {key} |-> IF k = key THEN value ELSE m[k]]

---------------------------------------------------------------------------
(* char::to_digit(16), used by u8::from_str_radix and by percent_decode:   *)
(* the value of an ASCII hexadecimal digit, -1 for any other character.    *)

ToDigit16(c) ==
    IF c \in 48..57 THEN c - 48
    ELSE IF c \in 97..102 THEN c - 87
    ELSE IF c \in 65..70 THEN c - 55
    ELSE -1

(* u8::from_str_radix(s, 16).  A lone sign is an error; one leading '+' is *)
(* accepted and skipped; '-' is no sign for an unsigned type and so is an  *)
(* invalid digit; every remaining character must be a digit and the value  *)
(* must fit in eight bits.                                                 *)
RECURSIVE RadixDigits(_, _)
RadixDigits(digits, acc) ==
    IF acc < 0 \/ digits = <<>> THEN acc
    ELSE IF ToDigit16(Head(digits)) < 0 THEN -1
    ELSE IF acc * 16 + ToDigit16(Head(digits)) > 255 THEN -1
    ELSE RadixDigits(Tail(digits), acc * 16 + ToDigit16(Head(digits)))

FromStrRadix16(s) ==
    IF s = <<>> THEN -1
    ELSE IF Len(s) = 1 /\ Head(s) \in {Plus, Minus} THEN -1
    ELSE IF Head(s) = Plus THEN RadixDigits(Tail(s), 0)
    ELSE RadixDigits(s, 0)

---------------------------------------------------------------------------
(* UTF-8.                                                                  *)

IsCont(b) == b \in 128..191

(* The second byte a lead byte admits (Unicode table 3-7).                 *)
SecondOk(lead, b) ==
    IF lead = 224 THEN b \in 160..191
    ELSE IF lead = 237 THEN b \in 128..159
    ELSE IF lead = 240 THEN b \in 144..191
    ELSE IF lead = 244 THEN b \in 128..143
    ELSE IsCont(b)

Utf8Width(lead) ==
    IF lead < 128 THEN 1
    ELSE IF lead \in 194..223 THEN 2
    ELSE IF lead \in 224..239 THEN 3
    ELSE IF lead \in 240..244 THEN 4
    ELSE 0

(* How many bytes at the head of bs form one valid scalar value (ok) or    *)
(* the maximal prefix of one that went wrong (~ok).                        *)
Utf8Next(bs) ==
    LET lead == bs[1]
        w == Utf8Width(lead)
    IN  IF w = 0 THEN [ok |-> FALSE, n |-> 1, c |-> Replacement]
        ELSE IF w = 1 THEN [ok |-> TRUE, n |-> 1, c |-> lead]
        ELSE IF Len(bs) < 2 \/ ~SecondOk(lead, bs[2])
            THEN [ok |-> FALSE, n |-> 1, c |-> Replacement]
        ELSE IF w = 2
            THEN [ok |-> TRUE, n |-> 2, c |-> (lead - 192) * 64 + (bs[2] - 128)]
        ELSE IF Len(bs) < 3 \/ ~IsCont(bs[3])
            THEN [ok |-> FALSE, n |-> 2, c |-> Replacement]
        ELSE IF w = 3
            THEN [ok |-> TRUE, n |-> 3,
                  c |-> (lead - 224) * 4096 + (bs[2] - 128) * 64 + (bs[3] - 128)]
        ELSE IF Len(bs) < 4 \/ ~IsCont(bs[4])
            THEN [ok |-> FALSE, n |-> 3, c |-> Replacement]
        ELSE [ok |-> TRUE, n |-> 4,
              c |-> (lead - 240) * 262144 + (bs[2] - 128) * 4096
                    + (bs[3] - 128) * 64 + (bs[4] - 128)]

(* Decoding with replacement: the text, and whether anything was replaced. *)
RECURSIVE Utf8Decode(_, _, _)
Utf8Decode(bs, text, bad) ==
    IF bs = <<>> THEN [text |-> text, had_errors |-> bad]
    ELSE LET nx == Utf8Next(bs)
         IN  Utf8Decode(Drop(bs, nx.n), Append(text, nx.c), bad \/ ~nx.ok)

(* String::from_utf8_lossy                                                 *)
FromUtf8Lossy(bs) == Utf8Decode(bs, <<>>, FALSE).text

(* str::as_bytes of one character, and of a text.                          *)
Utf8EncodeChar(c) ==
    IF c < 128 THEN <<c>>
    ELSE IF c < 2048 THEN <<192 + (c \div 64), 128 + (c % 64)>>
    ELSE IF c < 65536
        THEN <<224 + (c \div 4096), 128 + ((c \div 64) % 64), 128 + (c % 64)>>
    ELSE <<240 + (c \div 262144), 128 + ((c \div 4096) % 64),
           128 + ((c \div 64) % 64), 128 + (c % 64)>>

RECURSIVE AsBytes(_)
AsBytes(text) ==
    IF text = <<>> THEN <<>> ELSE Utf8EncodeChar(Head(text)) \o AsBytes(Tail(text))

---------------------------------------------------------------------------
(* decode_escape_sequences, decoder.rs.  One iteration of the while loop   *)
(* on the loop's state st = [chars, result, byte_seq].                     *)

Flush(st) ==
    IF st.byte_seq # <<>>
    THEN [st EXCEPT !.result = @ \o FromUtf8Lossy(st.byte_seq), !.byte_seq = <<>>]
    ELSE st

IsEscapeStart(cs) ==
    Len(cs) >= 2 /\ cs[1] = Backslash /\ cs[2] = LowerX

(* decoder_iteration with each escape decoded on its own, the bug that     *)
(* batching the bytes exists to avoid.                                     *)
decoder_iteration_bytewise(st) ==
    IF IsEscapeStart(st.chars)
    THEN LET after == Drop(st.chars, 2)
         IN  IF Len(after) >= 2
             THEN LET hex_chars == SubSeq(after, 1, 2)
                      byte == FromStrRadix16(hex_chars)
                  IN  IF byte >= 0
                      THEN [st EXCEPT !.chars = Drop(after, 2),
                                      !.result = @ \o FromUtf8Lossy(<<byte>>)]
                      ELSE [st EXCEPT !.chars = Drop(after, 2),
                                      !.result = @ \o <<Backslash, LowerX>> \o hex_chars]
             ELSE [st EXCEPT !.chars = <<>>,
                             !.result = @ \o <<Backslash, LowerX>>]
    ELSE LET f == Flush(st)
         IN  [f EXCEPT !.chars = Tail(st.chars),
                       !.result = Append(@, Head(st.chars))]

decoder_iteration(st) ==
    IF IsEscapeStart(st.chars)
    THEN LET after == Drop(st.chars, 2)
         IN  IF Len(after) >= 2
             THEN LET hex_chars == SubSeq(after, 1, 2)
                      byte == FromStrRadix16(hex_chars)
                  IN  IF byte >= 0
                      THEN [st EXCEPT !.chars = Drop(after, 2),
                                      !.byte_seq = Append(@, byte)]
                      ELSE [st EXCEPT !.chars = Drop(after, 2),
                                      !.result = @ \o <<Backslash, LowerX>> \o hex_chars]
             \* (chars.next(), chars.next()) has taken whatever was left
             ELSE [st EXCEPT !.chars = <<>>,
                             !.result = @ \o <<Backslash, LowerX>>]
    ELSE LET f == Flush(st)
         IN  [f EXCEPT !.chars = Tail(st.chars),
                       !.result = Append(@, Head(st.chars))]

(* decode_escape_sequences, parser.rs.                                     *)
parser_iteration(st) ==
    IF ~IsEscapeStart(st.chars)
    THEN LET f == Flush(st)
         IN  [f EXCEPT !.chars = Tail(st.chars),
                       !.result = Append(@, Head(st.chars))]
    ELSE LET after == Drop(st.chars, 2)
         IN  IF after = <<>>
             THEN [st EXCEPT !.chars = <<>>,
                             !.result = @ \o <<Backslash, LowerX>>]
             ELSE IF Len(after) = 1
             THEN [st EXCEPT !.chars = <<>>,
                             !.result = @ \o <<Backslash, LowerX, after[1]>>]
             ELSE LET hex_chars == SubSeq(after, 1, 2)
                      byte == FromStrRadix16(hex_chars)
                  IN  IF byte >= 0
                      THEN [st EXCEPT !.chars = Drop(after, 2),
                                      !.byte_seq = Append(@, byte)]
                      ELSE [st EXCEPT !.chars = Drop(after, 2),
                                      !.result = @ \o <<Backslash, LowerX>> \o hex_chars]

LoopStart(text) == [chars |-> text, result |-> <<>>, byte_seq |-> <<>>]

RECURSIVE decoder_loop(_)
decoder_loop(st) ==
    IF st.chars = <<>> THEN Flush(st).result ELSE decoder_loop(decoder_iteration(st))

RECURSIVE parser_loop(_)
parser_loop(st) ==
    IF st.chars = <<>> THEN Flush(st).result ELSE parser_loop(parser_iteration(st))

decoder_decode_escape_sequences(text) == decoder_loop(LoopStart(text))

parser_decode_escape_sequences(text) == parser_loop(LoopStart(text))

---------------------------------------------------------------------------
(* The \xNN decoders run on their own, one loop iteration per step.        *)

EscapeTokens ==
    { <<Backslash>>, <<LowerX>>, <<52>>, <<49>>, <<71>>, <<Plus>>,
      <<Backslash, LowerX, 52, 49>>,        \* \x41  A
      <<Backslash, LowerX, 67, 51>>,        \* \xC3  first byte of e-acute
      <<Backslash, LowerX, 97, 57>>,        \* \xa9  second byte of e-acute
      <<Backslash, LowerX, 53, 67>> }       \* \x5C  backslash

InitEscape ==
    /\ mode \in {"decoder", "parser"}
    /\ pc = "loop"
    /\ \E toks \in BoundedSeqs(EscapeTokens, MaxTokens) : input = Flatten(toks)
    /\ encoding = "none"
    /\ chars = input
    /\ result = <<>>
    /\ byte_seq = <<>>
    /\ decoded = <<>>
    /\ pairs = <<>>
    /\ map = EmptyMap
    /\ out = <<>>

LoopState == [chars |-> chars, result |-> result, byte_seq |-> byte_seq]

SetLoop(st) ==
    /\ chars' = st.chars
    /\ result' = st.result
    /\ byte_seq' = st.byte_seq

DecoderIterate ==
    /\ mode = "decoder" /\ pc = "loop" /\ chars # <<>>
    /\ SetLoop(decoder_iteration(LoopState))
    /\ UNCHANGED <<mode, pc, input, encoding, decoded, pairs, map, out>>

DecoderReturn ==
    /\ mode = "decoder" /\ pc = "loop" /\ chars = <<>>
    /\ SetLoop(Flush(LoopState))
    /\ out' = Flush(LoopState).result
    /\ pc' = "done"
    /\ UNCHANGED <<mode, input, encoding, decoded, pairs, map>>

ParserIterate ==
    /\ mode = "parser" /\ pc = "loop" /\ chars # <<>>
    /\ SetLoop(parser_iteration(LoopState))
    /\ UNCHANGED <<mode, pc, input, encoding, decoded, pairs, map, out>>

ParserReturn ==
    /\ mode = "parser" /\ pc = "loop" /\ chars = <<>>
    /\ SetLoop(Flush(LoopState))
    /\ out' = Flush(LoopState).result
    /\ pc' = "done"
    /\ UNCHANGED <<mode, input, encoding, decoded, pairs, map>>

NextEscape == DecoderIterate \/ DecoderReturn \/ ParserIterate \/ ParserReturn

SpecEscape == InitEscape /\ [][NextEscape]_vars

---------------------------------------------------------------------------
(* percent_encoding::percent_decode: %XX with two hexadecimal digits is    *)
(* one byte, any other byte is itself.                                     *)

RECURSIVE PercentDecode(_)
PercentDecode(bs) ==
    IF bs = <<>> THEN <<>>
    ELSE IF /\ bs[1] = Percent /\ Len(bs) >= 3
            /\ ToDigit16(bs[2]) >= 0 /\ ToDigit16(bs[3]) >= 0
    THEN <<ToDigit16(bs[2]) * 16 + ToDigit16(bs[3])>> \o PercentDecode(Drop(bs, 3))
    ELSE <<Head(bs)>> \o PercentDecode(Tail(bs))

(* The position of the first sep in s, 0 when there is none.               *)
RECURSIVE Position(_, _, _)
Position(s, sep, i) ==
    IF i > Len(s) THEN 0 ELSE IF s[i] = sep THEN i ELSE Position(s, sep, i + 1)

(* url::form_urlencoded: '+' is a space, then percent-decoding, then lossy *)
(* UTF-8.                                                                  *)
ReplacePlus(bs) == [i \in 1..Len(bs) |-> IF bs[i] = Plus THEN Space ELSE bs[i]]

FormDecode(bs) == FromUtf8Lossy(PercentDecode(ReplacePlus(bs)))

(* url::form_urlencoded::parse: the pieces between '&', empty ones         *)
(* skipped, each split at its first '=' into a name and a value.           *)
RECURSIVE FormUrlencodedParse(_)
FormUrlencodedParse(bs) ==
    IF bs = <<>> THEN <<>>
    ELSE LET amp == Position(bs, Ampersand, 1)
             sequence == IF amp = 0 THEN bs ELSE SubSeq(bs, 1, amp - 1)
             rest == IF amp = 0 THEN <<>> ELSE Drop(bs, amp)
             eq == Position(sequence, Equals, 1)
             name == IF eq = 0 THEN sequence ELSE SubSeq(sequence, 1, eq - 1)
             value == IF eq = 0 THEN <<>> ELSE Drop(sequence, eq)
         IN  IF sequence = <<>> THEN FormUrlencodedParse(rest)
             ELSE <<<<FormDecode(name), FormDecode(value)>>>>
                  \o FormUrlencodedParse(rest)

---------------------------------------------------------------------------
(* add_or_update_value, parser.rs.                                         *)

(* str::split *)
RECURSIVE Split(_, _)
Split(s, sep) ==
    LET i == Position(s, sep, 1)
    IN  IF i = 0 THEN <<s>> ELSE <<SubSeq(s, 1, i - 1)>> \o Split(Drop(s, i), sep)

(* str::trim_end_matches *)
RECURSIVE TrimEndMatches(_, _)
TrimEndMatches(s, c) ==
    IF s # <<>> /\ s[Len(s)] = c THEN TrimEndMatches(SubSeq(s, 1, Len(s) - 1), c) ELSE s

(* entry(key).or_insert_with(make) *)
OrInsert(m, key, value) == IF key \in DOMAIN m THEN m ELSE Insert(m, key, value)

Panic == [panic |-> TRUE, map |-> EmptyMap]
Updated(m) == [panic |-> FALSE, map |-> m]

(* add_or_update_value that skips a key of an unexpected format            *)
add_or_update_value_skipping(result_map, key, value) ==
    LET parts == Split(key, OpenBracket)
    IN  IF Len(parts) = 1
        THEN Updated(Insert(result_map, parts[1], JString(value)))
        ELSE IF Len(parts) = 2
        THEN LET main_key == parts[1]
                 sub_key == TrimEndMatches(parts[2], CloseBracket)
             IN  IF sub_key = <<>>
                 THEN LET m == OrInsert(result_map, main_key, JArray(<<>>))
                      IN  IF m[main_key].t = "Array"
                          THEN Updated([m EXCEPT ![main_key].v = Append(@, JString(value))])
                          ELSE Updated(m)
                 ELSE LET m == OrInsert(result_map, main_key, JObject(EmptyMap))
                      IN  IF m[main_key].t = "Object"
                          THEN Updated([m EXCEPT ![main_key].v =
                                                   Insert(@, sub_key, JString(value))])
                          ELSE Updated(m)
        ELSE Updated(result_map)

(* add_or_update_value whose array branch keeps only the newest item       *)
add_or_update_value_overwriting(result_map, key, value) ==
    LET parts == Split(key, OpenBracket)
    IN  IF Len(parts) = 1
        THEN Updated(Insert(result_map, parts[1], JString(value)))
        ELSE IF Len(parts) = 2
        THEN LET main_key == parts[1]
                 sub_key == TrimEndMatches(parts[2], CloseBracket)
             IN  IF sub_key = <<>>
                 THEN Updated(Insert(result_map, main_key, JArray(<<JString(value)>>)))
                 ELSE LET m == OrInsert(result_map, main_key, JObject(EmptyMap))
                      IN  IF m[main_key].t = "Object"
                          THEN Updated([m EXCEPT ![main_key].v =
                                                   Insert(@, sub_key, JString(value))])
                          ELSE Updated(m)
        ELSE Panic

add_or_update_value(result_map, key, value) ==
    LET parts == Split(key, OpenBracket)
    IN  IF Len(parts) = 1
        THEN Updated(Insert(result_map, parts[1], JString(value)))
        ELSE IF Len(parts) = 2
        THEN LET main_key == parts[1]
                 sub_key == TrimEndMatches(parts[2], CloseBracket)
             IN  IF sub_key = <<>>
                 THEN LET m == OrInsert(result_map, main_key, JArray(<<>>))
                      IN  IF m[main_key].t = "Array"
                          THEN Updated([m EXCEPT ![main_key].v = Append(@, JString(value))])
                          ELSE Updated(m)
                 ELSE LET m == OrInsert(result_map, main_key, JObject(EmptyMap))
                      IN  IF m[main_key].t = "Object"
                          THEN Updated([m EXCEPT ![main_key].v =
                                                   Insert(@, sub_key, JString(value))])
                          ELSE Updated(m)
        ELSE Panic

---------------------------------------------------------------------------
(* serde_json::from_slice on the texts of this model: optional white       *)
(* space, one value, optional white space.  The values modelled are        *)
(* unsigned integers and arrays; JsonModelled says which texts that        *)
(* covers exactly (no text of the model holds a character that could       *)
(* begin a string, an object, a literal, a sign, a fraction or an          *)
(* exponent).                                                              *)

JsonUnmodelled == {34, 123, 45, 46, 101, 69, 116, 102, 110}

JsonModelled(text) == \A i \in 1..Len(text) : text[i] \notin JsonUnmodelled

IsWhitespace(c) == c \in {32, 9, 10, 13}

IsDigit(c) == c \in 48..57

RECURSIVE SkipWhitespace(_)
SkipWhitespace(text) ==
    IF text # <<>> /\ IsWhitespace(Head(text)) THEN SkipWhitespace(Tail(text)) ELSE text

RECURSIVE DigitCount(_)
DigitCount(text) ==
    IF text # <<>> /\ IsDigit(Head(text)) THEN 1 + DigitCount(Tail(text)) ELSE 0

JsonError == [ok |-> FALSE, v |-> JNull, rest |-> <<>>]

RECURSIVE JsonValue(_), JsonItems(_, _)
(* one value at the head of text *)
JsonValue(text) ==
    IF text = <<>> THEN JsonError
    ELSE IF IsDigit(Head(text))
    THEN LET n == DigitCount(text)
         IN  IF Head(text) = 48 /\ n > 1 THEN JsonError
             ELSE [ok |-> TRUE, v |-> JNumber(SubSeq(text, 1, n)), rest |-> Drop(text, n)]
    ELSE IF Head(text) = OpenBracket
    THEN LET inner == SkipWhitespace(Tail(text))
         IN  IF inner # <<>> /\ Head(inner) = CloseBracket
             THEN [ok |-> TRUE, v |-> JArray(<<>>), rest |-> Tail(inner)]
             ELSE JsonItems(inner, <<>>)
    ELSE JsonError

(* the items of an array after its '[' or after a ',' *)
JsonItems(text, items) ==
    LET item == JsonValue(text)
        after == SkipWhitespace(item.rest)
    IN  IF ~item.ok \/ after = <<>> THEN JsonError
        ELSE IF Head(after) = CloseBracket
        THEN [ok |-> TRUE, v |-> JArray(Append(items, item.v)), rest |-> Tail(after)]
        ELSE IF Head(after) = 44
        THEN JsonItems(SkipWhitespace(Tail(after)), Append(items, item.v))
        ELSE JsonError

JsonFromStr(text) ==
    LET value == JsonValue(SkipWhitespace(text))
    IN  IF value.ok /\ SkipWhitespace(value.rest) = <<>>
        THEN [ok |-> TRUE, v |-> value.v]
        ELSE [ok |-> FALSE, v |-> JNull]

---------------------------------------------------------------------------
(* parser.rs: DataProcessor::process with a JsonParser or with a           *)
(* FormURLEncodedParser.  The input is a byte string.                      *)

(* std::str::from_utf8 *)
FromUtf8(bs) ==
    LET d == Utf8Decode(bs, <<>>, FALSE)
    IN  [ok |-> ~d.had_errors, text |-> d.text]

FormPieces ==
    { <<>>,
      <<97, 61, 49>>,                               \* a=1
      <<97>>,                                       \* a
      <<98, 61, 49>>,                               \* b=1
      <<97, 91, 93, 61, 49>>,                       \* a[]=1
      <<97, 91, 93, 61, 50>>,                       \* a[]=2
      <<97, 91, 98, 93, 61, 49>>,                   \* a[b]=1
      <<97, 91, 98, 93, 61, 50>>,                   \* a[b]=2
      <<97, 91, 99, 93, 61, 49>>,                   \* a[c]=1
      <<97, 91, 98, 93, 91, 99, 93, 61, 49>>,       \* a[b][c]=1
      <<97, 37, 53, 66, 37, 53, 68, 61, 43>>,       \* a%5B%5D=+
      <<92, 120, 54, 50, 91, 93, 61, 50>>,          \* \x62[]=2
      <<91, 49, 93>>,                               \* [1]
      <<255>> }                                     \* not UTF-8

RECURSIVE JoinPieces(_)
JoinPieces(ps) ==
    IF ps = <<>> THEN <<>>
    ELSE IF Len(ps) = 1 THEN ps[1]
    ELSE ps[1] \o <<Ampersand>> \o JoinPieces(Tail(ps))

InitForm ==
    /\ mode \in {"json", "form"}
    /\ pc = "start"
    /\ \E ps \in BoundedSeqs(FormPieces, MaxPieces) : input = JoinPieces(ps)
    /\ encoding = "none"
    /\ chars = <<>>
    /\ result = <<>>
    /\ byte_seq = <<>>
    /\ decoded = <<>>
    /\ pairs = <<>>
    /\ map = EmptyMap
    /\ out = NoValue

(* JsonParser::parse *)
JsonParserParse ==
    /\ mode = "json" /\ pc = "start"
    /\ LET utf8_str_result == FromUtf8(input)
           unescaped == parser_decode_escape_sequences(utf8_str_result.text)
           parsed == JsonFromStr(unescaped)
       IN  IF utf8_str_result.ok
           THEN /\ decoded' = unescaped
                /\ out' = IF parsed.ok THEN parsed.v ELSE JNull
           ELSE /\ decoded' = decoded
                /\ out' = JNull
    /\ pc' = "done"
    /\ UNCHANGED <<mode, input, encoding, chars, result, byte_seq, pairs, map>>

(* FormURLEncodedParser::parse up to its for loop (the two println! of the *)
(* texts write to stdout and change nothing the parse reads)               *)
FormParserBegin ==
    /\ mode = "form" /\ pc = "start"
    /\ LET utf8_str_result == FromUtf8(input)
           text == parser_decode_escape_sequences(utf8_str_result.text)
       IN  IF utf8_str_result.ok
           THEN /\ decoded' = text
                /\ pairs' = FormUrlencodedParse(AsBytes(text))
                /\ map' = EmptyMap
                /\ pc' = "fold"
                /\ out' = out
           ELSE /\ out' = JNull
                /\ pc' = "done"
                /\ UNCHANGED <<decoded, pairs, map>>
    /\ UNCHANGED <<mode, input, encoding, chars, result, byte_seq>>

(* one turn of the for loop: add_or_update_value on the next pair *)
FormParserAdd ==
    /\ mode = "form" /\ pc = "fold" /\ pairs # <<>>
    /\ LET r == add_or_update_value(map, Head(pairs)[1], Head(pairs)[2])
       IN  IF r.panic
           THEN /\ pc' = "panicked"
                /\ UNCHANGED <<pairs, map>>
           ELSE /\ map' = r.map
                /\ pairs' = Tail(pairs)
                /\ pc' = pc
    /\ UNCHANGED <<mode, input, encoding, chars, result, byte_seq, decoded, out>>

(* Value::Object(result) *)
FormParserReturn ==
    /\ mode = "form" /\ pc = "fold" /\ pairs = <<>>
    /\ out' = JObject(map)
    /\ pc' = "done"
    /\ UNCHANGED <<mode, input, encoding, chars, result, byte_seq, decoded, pairs, map>>

NextForm == JsonParserParse \/ FormParserBegin \/ FormParserAdd \/ FormParserReturn

SpecForm == InitForm /\ [][NextForm]_vars

---------------------------------------------------------------------------
(* encoding_rs: Encoding::decode, which sniffs a byte order mark and then  *)
(* decodes with replacement, reporting whether anything was replaced.      *)

Encodings == {"UTF_8", "EUC_KR", "WINDOWS_1252"}

(* Encoding::name *)
EncodingName(e) ==
    IF e = "UTF_8" THEN <<85, 84, 70, 45, 56>>
    ELSE IF e = "EUC_KR" THEN <<69, 85, 67, 45, 75, 82>>
    ELSE <<119, 105, 110, 100, 111, 119, 115, 45, 49, 50, 53, 50>>

(* Encoding::for_bom *)
ForBom(bs) ==
    IF Len(bs) >= 3 /\ SubSeq(bs, 1, 3) = <<239, 187, 191>>
    THEN [encoding |-> "UTF_8", bom_length |-> 3]
    ELSE IF Len(bs) >= 2 /\ SubSeq(bs, 1, 2) = <<255, 254>>
    THEN [encoding |-> "UTF_16LE", bom_length |-> 2]
    ELSE IF Len(bs) >= 2 /\ SubSeq(bs, 1, 2) = <<254, 255>>
    THEN [encoding |-> "UTF_16BE", bom_length |-> 2]
    ELSE [encoding |-> "none", bom_length |-> 0]

(* UTF-16: code units of two bytes; a surrogate without its partner and a  *)
(* last odd byte are errors.                                               *)
CodeUnit(bs, i, big_endian) ==
    IF big_endian THEN bs[i] * 256 + bs[i + 1] ELSE bs[i] + bs[i + 1] * 256

RECURSIVE Utf16Decode(_, _, _, _)
Utf16Decode(bs, big_endian, text, bad) ==
    IF bs = <<>> THEN [text |-> text, had_errors |-> bad]
    ELSE IF Len(bs) = 1 THEN [text |-> Append(text, Replacement), had_errors |-> TRUE]
    ELSE LET unit == CodeUnit(bs, 1, big_endian)
         IN  IF unit \in 55296..56319
             THEN IF Len(bs) >= 4 /\ CodeUnit(bs, 3, big_endian) \in 56320..57343
                  THEN Utf16Decode(Drop(bs, 4), big_endian,
                           Append(text, 65536 + (unit - 55296) * 1024
                                        + (CodeUnit(bs, 3, big_endian) - 56320)),
                           bad)
                  ELSE Utf16Decode(Drop(bs, 2), big_endian, Append(text, Replacement), TRUE)
             ELSE IF unit \in 56320..57343
             THEN Utf16Decode(Drop(bs, 2), big_endian, Append(text, Replacement), TRUE)
             ELSE Utf16Decode(Drop(bs, 2), big_endian, Append(text, unit), bad)

(* windows-1252: the bytes 0x80..0x9F go by table, every other byte is the *)
(* code point of the same number.  No byte is an error.                    *)
Windows1252High ==
    << 8364, 129, 8218, 402, 8222, 8230, 8224, 8225, 710, 8240, 352, 8249, 338, 141,
       381, 143, 144, 8216, 8217, 8220, 8221, 8226, 8211, 8212, 732, 8482, 353, 8250,
       339, 157, 382, 376 >>

Windows1252Decode(bs) ==
    [text |-> [i \in 1..Len(bs) |->
                  IF bs[i] \in 128..159 THEN Windows1252High[bs[i] - 127] ELSE bs[i]],
     had_errors |-> FALSE]

(* EUC-KR.  Of the index only the five entries that decoder.rs's own test  *)
(* test_decode_input_euc_kr pins are written out; EucKrIndex is -1 at any  *)
(* other pointer, and no run of the model decodes such a pair (see         *)
(* EucKrCovered).                                                          *)
EucKrIndex(pointer) ==
    IF pointer = 11725 THEN 50504          \* BE C8
    ELSE IF pointer = 9666 THEN 45397      \* B3 E7
    ELSE IF pointer = 13442 THEN 54616     \* C7 CF
    ELSE IF pointer = 11333 THEN 49464     \* BC BC
    ELSE IF pointer = 11943 THEN 50836     \* BF E4
    ELSE -1

RECURSIVE EucKrDecode(_, _, _, _)
EucKrDecode(bs, text, bad, outside) ==
    IF bs = <<>> THEN [text |-> text, had_errors |-> bad, outside |-> outside]
    ELSE IF bs[1] < 128 THEN EucKrDecode(Tail(bs), Append(text, bs[1]), bad, outside)
    ELSE IF bs[1] \notin 129..254 \/ Len(bs) = 1
    THEN EucKrDecode(Tail(bs), Append(text, Replacement), TRUE, outside)
    ELSE IF bs[2] \in 65..254
    THEN LET code_point == EucKrIndex((bs[1] - 129) * 190 + (bs[2] - 65))
         IN  EucKrDecode(Drop(bs, 2), Append(text, code_point), bad,
                         outside \/ code_point < 0)
    \* no pointer: an error, and an ASCII byte is looked at again
    ELSE EucKrDecode(Drop(bs, IF bs[2] < 128 THEN 1 ELSE 2),
                     Append(text, Replacement), TRUE, outside)

(* Encoding::decode_without_bom_handling *)
DecodeWithoutBomHandling(e, bs) ==
    IF e = "UTF_8" THEN Utf8Decode(bs, <<>>, FALSE)
    ELSE IF e = "UTF_16LE" THEN Utf16Decode(bs, FALSE, <<>>, FALSE)
    ELSE IF e = "UTF_16BE" THEN Utf16Decode(bs, TRUE, <<>>, FALSE)
    ELSE IF e = "EUC_KR"
    THEN LET d == EucKrDecode(bs, <<>>, FALSE, FALSE)
         IN  [text |-> d.text, had_errors |-> d.had_errors]
    ELSE Windows1252Decode(bs)

(* Encoding::decode *)
EncodingDecode(e, bs) ==
    LET bom == ForBom(bs)
    IN  IF bom.encoding # "none"
        THEN DecodeWithoutBomHandling(bom.encoding, Drop(bs, bom.bom_length))
        ELSE DecodeWithoutBomHandling(e, bs)

---------------------------------------------------------------------------
(* decode_input, decoder.rs                                                *)

(* "EUC-KR decoding error" *)
DecodingError ==
    [t |-> "Err",
     v |-> <<69, 85, 67, 45, 75, 82, 32, 100, 101, 99, 111, 100, 105, 110, 103, 32,
             101, 114, 114, 111, 114>>]

decoder_decode_input(text, e) ==
    LET percent_decoded == PercentDecode(AsBytes(text))
        cow == EncodingDecode(e, percent_decoded)
    IN  IF cow.had_errors
        THEN [ok |-> FALSE, text |-> <<>>, err |-> DecodingError]
        ELSE [ok |-> TRUE, text |-> decoder_decode_escape_sequences(cow.text),
              err |-> NoValue]

---------------------------------------------------------------------------
(* parse_to_json, which main.rs imports from parser.rs.  The for loop is   *)
(* the one of FormURLEncodedParser::parse.                                 *)

RECURSIVE FoldPairs(_, _)
FoldPairs(ps, m) ==
    IF ps = <<>> THEN Updated(m)
    ELSE LET r == add_or_update_value(m, Head(ps)[1], Head(ps)[2])
         IN  IF r.panic THEN Panic ELSE FoldPairs(Tail(ps), r.map)

(* parse_to_json that gives up when the text is not JSON, as               *)
(* JsonParser::parse does                                                  *)
ParseToJsonOrNull(text) ==
    LET json == JsonFromStr(text)
    IN  IF json.ok THEN [panic |-> FALSE, v |-> json.v]
        ELSE [panic |-> FALSE, v |-> JNull]

ParseToJson(text) ==
    LET json == JsonFromStr(text)
        folded == FoldPairs(FormUrlencodedParse(AsBytes(text)), EmptyMap)
    IN  IF json.ok THEN [panic |-> FALSE, v |-> json.v]
        ELSE IF folded.panic THEN [panic |-> TRUE, v |-> NoValue]
        ELSE [panic |-> FALSE, v |-> JObject(folded.map)]

---------------------------------------------------------------------------
(* main, main.rs.  The input is the command line's text.                   *)

ArgTokens ==
    { <<37, 66, 67>>,                       \* %BC
      <<37, 70, 70>>,                       \* %FF
      <<37, 67, 51, 37, 65, 57>>,           \* %C3%A9, e-acute in UTF-8
      <<37, 70, 70, 37, 70, 69>>,           \* %FF%FE, the UTF-16LE byte order mark
      <<49>>,                               \* 1
      <<91>>,                               \* [
      <<93>>,                               \* ]
      <<38>>,                               \* &
      <<97, 61, 49>>,                       \* a=1
      <<97, 91, 93, 61, 50>>,               \* a[]=2
      <<92, 120, 53, 66>> }                 \* \x5B, an escaped [

(* Every EUC-KR pair the input holds is one of the index entries above.    *)
EucKrCovered(text) ==
    LET bs == PercentDecode(AsBytes(text))
        bom == ForBom(bs)
    IN  bom.encoding = "none" => ~EucKrDecode(bs, <<>>, FALSE, FALSE).outside

InitCli ==
    /\ mode = "cli"
    /\ pc = "start"
    /\ encoding \in Encodings
    /\ \E toks \in BoundedSeqs(ArgTokens, MaxArgs) : input = Flatten(toks)
    /\ encoding = "EUC_KR" => EucKrCovered(input)
    /\ chars = <<>>
    /\ result = <<>>
    /\ byte_seq = <<>>
    /\ decoded = <<>>
    /\ pairs = <<>>
    /\ map = EmptyMap
    /\ out = NoValue

(* let decoded = decode_input(&args.input, encoding)?; *)
MainDecodeInput ==
    /\ mode = "cli" /\ pc = "start"
    /\ LET r == decoder_decode_input(input, encoding)
       IN  IF r.ok
           THEN /\ decoded' = r.text
                /\ pc' = "decoded"
                /\ out' = out
           ELSE /\ decoded' = decoded
                /\ pc' = "failed"
                /\ out' = r.err
    /\ UNCHANGED <<mode, input, encoding, chars, result, byte_seq, pairs, map>>

(* let json = parse_to_json(&decoded)?; *)
MainParseToJson ==
    /\ mode = "cli" /\ pc = "decoded"
    /\ LET r == ParseToJson(decoded)
       IN  /\ pc' = IF r.panic THEN "panicked" ELSE "parsed"
           /\ out' = r.v
    /\ UNCHANGED <<mode, input, encoding, chars, result, byte_seq, decoded, pairs, map>>

(* println!("{}", serde_json::to_string(&json)?) *)
MainPrint ==
    /\ mode = "cli" /\ pc = "parsed"
    /\ pc' = "printed"
    /\ UNCHANGED <<mode, input, encoding, chars, result, byte_seq, decoded, pairs, map, out>>

NextCli == MainDecodeInput \/ MainParseToJson \/ MainPrint

SpecCli == InitCli /\ [][NextCli]_vars

---------------------------------------------------------------------------
(* The three entry points together.                                        *)

Init == InitEscape \/ InitForm \/ InitCli

Next == NextEscape \/ NextForm \/ NextCli

Spec == Init /\ [][Next]_vars

---------------------------------------------------------------------------
(* What the statements about the \xNN decoders are written in.             *)

IsHexDigit(c) == c \in (48..57) \cup (65..70) \cup (97..102)

HexValue(c) == IF c <= 57 THEN c - 48 ELSE IF c <= 70 THEN c - 55 ELSE c - 87

(* text begins with backslash, x and two hexadecimal digits                *)
IsValidEscape(text) ==
    /\ Len(text) >= 4
    /\ text[1] = Backslash /\ text[2] = LowerX
    /\ IsHexDigit(text[3]) /\ IsHexDigit(text[4])

EscapeByte(text) == HexValue(text[3]) * 16 + HexValue(text[4])

(* The bytes of the longest run of valid escapes text begins with.         *)
RECURSIVE LeadingRun(_)
LeadingRun(text) ==
    IF IsValidEscape(text)
    THEN <<EscapeByte(text)>> \o LeadingRun(Drop(text, 4))
    ELSE <<>>

(* Every backslash of text begins a valid escape.                          *)
RECURSIVE OnlyValidEscapes(_)
OnlyValidEscapes(text) ==
    IF text = <<>> THEN TRUE
    ELSE IF IsValidEscape(text) THEN OnlyValidEscapes(Drop(text, 4))
    ELSE Head(text) # Backslash /\ OnlyValidEscapes(Tail(text))

(* Such a text with each maximal run of escapes decoded as one batch.      *)
RECURSIVE BatchDecoded(_)
BatchDecoded(text) ==
    IF text = <<>> THEN <<>>
    ELSE IF IsValidEscape(text)
    THEN LET run == LeadingRun(text)
         IN  FromUtf8Lossy(run) \o BatchDecoded(Drop(text, 4 * Len(run)))
    ELSE <<Head(text)>> \o BatchDecoded(Tail(text))

IsPrefix(p, s) == Len(p) <= Len(s) /\ SubSeq(s, 1, Len(p)) = p

IsSuffix(p, s) == Len(p) <= Len(s) /\ SubSeq(s, Len(s) - Len(p) + 1, Len(s)) = p

EscapeDone == mode \in {"decoder", "parser"} /\ pc = "done"

(* C1: an input that ends with backslash-x and at most one more character  *)
(* gives an output that ends with that same backslash-x and character.     *)
C1_TruncatedEscapePreserved ==
    EscapeDone =>
        \A n \in 0..1 :
            (Len(input) >= 2 + n
             /\ input[Len(input) - n - 1] = Backslash
             /\ input[Len(input) - n] = LowerX)
            => IsSuffix(SubSeq(input, Len(input) - n - 1, Len(input)), out)

(* C2: an iteration that meets backslash-x and two characters that are not *)
(* both hexadecimal digits leaves the pending bytes alone, appends those   *)
(* four characters to the output and goes on after them; the pending bytes *)
(* grow only at backslash-x and two hexadecimal digits.                    *)
C2_InvalidPairPreserved ==
    [][ (pc = "loop" /\ chars # <<>>) =>
          /\ (IsEscapeStart(chars) /\ Len(chars) >= 4 /\ ~IsValidEscape(chars))
               => /\ byte_seq' = byte_seq
                  /\ result' = result \o SubSeq(chars, 1, 4)
                  /\ chars' = Drop(chars, 4)
          /\ (Len(byte_seq') > Len(byte_seq)) => IsValidEscape(chars) ]_vars

C4_NoEscapeLeftInOutput ==
    EscapeDone => \A i \in 1..Len(out) : ~IsValidEscape(Drop(out, i - 1))

(* C10: the output begins with the decoding of the run of valid escapes    *)
(* the input begins with.                                                  *)
C10_RunEmittedInInputOrder ==
    EscapeDone => IsPrefix(FromUtf8Lossy(LeadingRun(input)), out)

---------------------------------------------------------------------------
(* What the statements about the form folding are written in.              *)

CountOf(s, c) == Cardinality({i \in 1..Len(s) : s[i] = c})

(* The three key shapes: k, k[] and k[s], with s a name of its own (not    *)
(* empty and free of brackets).                                            *)
KeyShape(key) ==
    IF CountOf(key, OpenBracket) = 0 THEN "plain"
    ELSE IF /\ CountOf(key, OpenBracket) = 1
            /\ CountOf(key, CloseBracket) = 1
            /\ key[Len(key)] = CloseBracket
    THEN IF key[Len(key) - 1] = OpenBracket THEN "array" ELSE "object"
    ELSE "other"

FirstOpen(key) == CHOOSE i \in 1..Len(key) : key[i] = OpenBracket

MainOf(key) ==
    IF KeyShape(key) = "plain" THEN key ELSE SubSeq(key, 1, FirstOpen(key) - 1)

SubOf(key) == SubSeq(key, FirstOpen(key) + 1, Len(key) - 1)

(* The pairs the form body of this run holds, in order.                    *)
BodyPairs == FormUrlencodedParse(AsBytes(decoded))

LastOf(S) == CHOOSE i \in S : \A j \in S : j <= i

LastValue(ps, key) == ps[LastOf({i \in 1..Len(ps) : ps[i][1] = key})][2]

RECURSIVE ValuesFor(_, _)
ValuesFor(ps, key) ==
    IF ps = <<>> THEN <<>>
    ELSE (IF Head(ps)[1] = key THEN <<JString(Head(ps)[2])>> ELSE <<>>)
         \o ValuesFor(Tail(ps), key)

KeysUnder(ps, main) == {ps[i][1] : i \in {j \in 1..Len(ps) : MainOf(ps[j][1]) = main}}

Foldable(ps) ==
    /\ \A i \in 1..Len(ps) : KeyShape(ps[i][1]) # "other"
    /\ \A i, j \in 1..Len(ps) :
          MainOf(ps[i][1]) = MainOf(ps[j][1]) => KeyShape(ps[i][1]) = KeyShape(ps[j][1])

FoldedValue(ps, main) ==
    LET keys == KeysUnder(ps, main)
        shape == KeyShape(CHOOSE key \in keys : TRUE)
    IN  IF shape = "plain" THEN JString(LastValue(ps, main))
        ELSE IF shape = "array" THEN JArray(ValuesFor(ps, CHOOSE key \in keys : TRUE))
        ELSE JObject([sub \in {SubOf(key) : key \in keys} |->
                        JString(LastValue(ps, CHOOSE key \in keys : SubOf(key) = sub))])

Folded(ps) ==
    JObject([main \in {MainOf(ps[i][1]) : i \in 1..Len(ps)} |-> FoldedValue(ps, main)])

(* C5: pairs whose keys are of the three shapes, no name used in two       *)
(* shapes, fold into the Object that holds the String of the last value    *)
(* under a plain key, the Array of all values in order under k[], and the  *)
(* Object of sub-key to String of the last value under k[s].               *)
C5_FormFolding ==
    (mode = "form" /\ pc = "done" /\ FromUtf8(input).ok /\ Foldable(BodyPairs))
        => out = Folded(BodyPairs)

C5_Witness ==
    /\ mode = "form" /\ pc = "done" /\ FromUtf8(input).ok /\ Foldable(BodyPairs)
    /\ Len(BodyPairs) = 3
    /\ \E main \in DOMAIN out.v : out.v[main].t = "Array" /\ Len(out.v[main].v) = 2
    /\ \E main \in DOMAIN out.v : out.v[main].t = "String"

(* C8: a form body with a key that holds two or more '[' ends in the       *)
(* fault and returns no value, wherever that pair stands.                  *)
C8_KeyFormatFault ==
    (/\ mode = "form" /\ pc \in {"done", "panicked"}
     /\ \E i \in 1..Len(BodyPairs) : CountOf(BodyPairs[i][1], OpenBracket) >= 2)
        => (pc = "panicked" /\ out = NoValue)

C8_Witness ==
    /\ mode = "form" /\ pc = "panicked" /\ out = NoValue
    /\ Len(pairs) >= 2 /\ Len(pairs) < Len(BodyPairs)
    /\ CountOf(Head(pairs)[1], OpenBracket) >= 2
    /\ DOMAIN map # {}

(* The pair under key meets a value of the other kind in m.                *)
TypeConflict(m, key) ==
    /\ KeyShape(key) \in {"array", "object"}
    /\ MainOf(key) \in DOMAIN m
    /\ m[MainOf(key)].t # (IF KeyShape(key) = "array" THEN "Array" ELSE "Object")

(* C9: the turn of the loop that meets a type conflict ends the parse in a *)
(* fault.                                                                  *)
C9_TypeConflictFault ==
    [][ (mode = "form" /\ pc = "fold" /\ pairs # <<>>
         /\ TypeConflict(map, Head(pairs)[1])) => pc' = "panicked" ]_vars

(* The JSON model is exact on every text it is given.                      *)
JsonModelCovers == JsonModelled(decoded)

---------------------------------------------------------------------------
(* What the statements about the command line run are written in.          *)

Contains(text, part) ==
    \E i \in 0..(Len(text) - Len(part)) : SubSeq(text, i + 1, i + Len(part)) = part

C7_CharsetFailure ==
    (mode = "cli" /\ pc = "failed") =>
        /\ encoding \in {"UTF_8", "EUC_KR"}
        /\ out.t = "Err" /\ Contains(out.v, EncodingName(encoding))
        /\ decoded = <<>>

====
